---- MODULE Spec2Model ----
(***************************************************************************)
(* Model of grub-core/bus/usb/xhci-pci.c: the PCI iteration callback       *)
(* grub_xhci_pci_iter (device qualification, capability lookup, BIOS->OS   *)
(* ownership handoff of USBLEGSUP, SMI disable, controller init) and its   *)
(* caller grub_xhci_pci_scan.                                              *)
(*                                                                         *)
(* Every configuration-space access, window access, clock query and        *)
(* external call of the function is one step, so that firmware can change  *)
(* the BIOS-owned bit between any two accesses.  Values are kept below     *)
(* 2^31; "x & ~m" for a low mask m is computed as x - (x % (m+1)).          *)
(***************************************************************************)
EXTENDS Integers, Sequences, FiniteSets, TLC

----------------------------------------------------------------------------
(* Program constants.                                                      *)
(* GRUB_PCI_* and GRUB_CS5536_PCIID carry the values of grub/pci.h and     *)
(* grub/cs5536.h, which xhci-pci.c includes (lines 20-22).                 *)

GRUB_XHCI_PCI_SBRN_REG == 96
GRUB_XHCI_BIOS_OWNED == 65536
GRUB_XHCI_OS_OWNED == 16777216
GRUB_CS5536_PCIID == 546246690
GRUB_PCI_REG_CLASS == 8
GRUB_PCI_REG_ADDRESS_REG0 == 16
GRUB_PCI_REG_ADDRESS_REG1 == 20
GRUB_PCI_REG_COMMAND == 4
GRUB_PCI_ADDR_MEM_TYPE_MASK == 6
GRUB_PCI_ADDR_MEM_TYPE_32 == 0
GRUB_PCI_COMMAND_MEM_ENABLED == 2
GRUB_PCI_COMMAND_BUS_MASTER == 4
\* size passed to grub_pci_device_map_range
XHCI_WINDOW_SIZE == 256
\* smallest extended-capability pointer for which the handoff runs
EECP_MIN == 64
\* milliseconds added to the clock to form maxtime
OWNERSHIP_TIMEOUT_MS == 1000
\* distance from USBLEGSUP to the SMI control register
SMI_REG_DELTA == 4

----------------------------------------------------------------------------
(* Bounds of the model.                                                    *)

\* number of times the enumerator hands the device to grub_xhci_pci_iter
MaxPasses == 2
\* the access counters of the log saturate here ("MaxCount or more")
MaxCount == 3

----------------------------------------------------------------------------
(* Bit arithmetic on non-negative integers.                                *)

RECURSIVE BitAnd(_, _)
BitAnd(a, b) ==
  IF a = 0 \/ b = 0 THEN 0
  ELSE (a % 2) * (b % 2) + 2 * BitAnd(a \div 2, b \div 2)

RECURSIVE BitOr(_, _)
BitOr(a, b) ==
  IF a = 0 THEN b
  ELSE IF b = 0 THEN a
  ELSE (IF (a % 2) + (b % 2) > 0 THEN 1 ELSE 0) + 2 * BitOr(a \div 2, b \div 2)

\* base & GRUB_PCI_ADDR_MEM_MASK, the mask being ~0xf
GRUB_PCI_ADDR_MEM_MASK(v) == v - (v % 16)

\* base & GRUB_XHCI_ADDR_MEM_MASK, the mask being ~0xff
GRUB_XHCI_ADDR_MEM_MASK(v) == v - (v % 256)

----------------------------------------------------------------------------
(* Input sets.                                                             *)

PciIds == {GRUB_CS5536_PCIID, 506560646}  \* CS5536 and 0x1e318086
\* 32-bit word at GRUB_PCI_REG_CLASS: class, subclass, interface, revision
ClassRegs == {201535491,                  \* 0x0c033003  xHCI
              201531395,                  \* 0x0c032003  EHCI interface
              201601027}                  \* 0x0c043003  other subclass
SbrnValues == {47, 48, 49, 50, 51}        \* 0x2f .. 0x33
Bar0Values == {0, 4, 16, 1073741824, 1073741826, 1073741828}
                          \* 0, 0x4, 0x10, 0x40000000, 0x40000002, 0x40000004
Bar1Values == {0, 1}
CommandValues == {1, 1026}                \* 0x0001, 0x0402
\* HCCPARAMS words with bits [15:8] = 0x00, 0x3f, 0x40, 0xfc
HccValues == {33554671, 33570799, 33571055, 33619183}
\* USBLEGSUP: unowned (two), BIOS-owned (two), OS-owned
LegValues == {0, 1025, 66561, 16842752, 16778241}
                                          \* 0, 0x401, 0x10401, 0x1010000, 0x1000401
ClockStarts == {0, 250}
\* how far the millisecond clock has moved on since the previous query
ClockSteps == {0, 500, 999}
SmiValues == {57345}                      \* 0xe001

\* A device present on the bus: the registers the function reads.  The
\* devices vary the inputs of one group of checks around an accepted one.
Baseline ==
  [pciid |-> 506560646, class |-> 201535491, sbrn |-> 49,
   bar0 |-> 1073741824, bar1 |-> 0, command |-> 1, hcc |-> 33571055,
   leg |-> 16778241]
IdentityDevices ==
  {[Baseline EXCEPT !.pciid = i, !.class = c] : i \in PciIds, c \in ClassRegs}
ReleaseDevices ==
  {[Baseline EXCEPT !.sbrn = r, !.command = c] :
     r \in SbrnValues, c \in CommandValues}
AddressDevices ==
  {[Baseline EXCEPT !.bar0 = b, !.bar1 = h, !.command = c] :
     b \in Bar0Values, h \in Bar1Values, c \in CommandValues}
HandoffDevices ==
  {[Baseline EXCEPT !.hcc = e, !.leg = u] : e \in HccValues, u \in LegValues}
Devices ==
  IdentityDevices \cup ReleaseDevices \cup AddressDevices \cup HandoffDevices

----------------------------------------------------------------------------
(* State.                                                                  *)

VARIABLES
  dev,          \* the device the enumerator found (read-only registers)
  hwCmd,        \* PCI command register of the device
  hwLeg,        \* USBLEGSUP, the ownership register at eecp_offset
  hwSmi,        \* the register at eecp_offset + 4
  now,          \* value of the last grub_get_time_ms
  pc,           \* position in grub_xhci_pci_iter, "idle" outside of it
  pass,         \* invocations of grub_xhci_pci_iter so far
  ret,          \* value returned by the last invocation, -1 before
  base, base_h, eecp_offset, usblegsup, maxtime, regs,   \* locals
  log,          \* what the current invocation did
  prevPath,     \* outcome of the previous invocation
  fwEverSet     \* firmware has set the BIOS-owned bit at some time

vars == <<dev, hwCmd, hwLeg, hwSmi, now, pc, pass, ret, base, base_h,
          eecp_offset, usblegsup, maxtime, regs, log, prevPath, fwEverSet>>

hw == <<dev, hwCmd, hwLeg, hwSmi>>
locals == <<base, base_h, eecp_offset, usblegsup, maxtime, regs>>

NoOp == [k |-> "none", a |-> -1, w |-> 0]
NoWindow == [base |-> -1, size |-> 0]

EmptyLog ==
  [path |-> "none",
   nOps |-> 0,                      \* accesses, clock queries and calls
   prev |-> NoOp, last |-> NoOp,    \* the two most recent operations
   cfgWrites |-> 0,                 \* configuration-space writes, any width
   cmdRead |-> -1, cmdWrites |-> <<>>,
   maps |-> <<>>, inits |-> <<>>, opsAfterInit |-> FALSE,
   initialLeg |-> -1, lastLegRead |-> -1,
   legReads |-> 0, legWrites |-> <<>>, readsAfterLegWrite |-> 0,
   clearSeen |-> FALSE,             \* a read up to the re-check saw BIOS clear
   clockQueries |-> 0, t0 |-> -1,
   smiWrites |-> <<>>, legAfterSmi |-> FALSE]

HasBit(v, bit) == BitAnd(v, bit) # 0

\* n + 1, saturating
Sat(n) == IF n >= MaxCount THEN MaxCount ELSE n + 1

\* Every operation moves the two-operation window and notes a late one.
Op(l, o) ==
  [l EXCEPT !.prev = l.last, !.last = o, !.nOps = Sat(@),
            !.opsAfterInit = (@ \/ l.inits # <<>>)]

LogCfgRead(l, a, w) == Op(l, [k |-> "read", a |-> a, w |-> w])
LogCfgWrite(l, a, w) ==
  [Op(l, [k |-> "write", a |-> a, w |-> w]) EXCEPT !.cfgWrites = @ + 1]

LogLegRead(l, a, v) ==
  [LogCfgRead(l, a, 32) EXCEPT
     !.legReads = Sat(@), !.lastLegRead = v,
     !.clearSeen = (@ \/ (l.path = "A" /\ ~HasBit(v, GRUB_XHCI_BIOS_OWNED))),
     !.readsAfterLegWrite = IF l.legWrites = <<>> THEN @ ELSE Sat(@),
     !.legAfterSmi = (@ \/ l.smiWrites # <<>>)]

LogLegWrite(l, a, v) ==
  [LogCfgWrite(l, a, 32) EXCEPT
     !.legWrites = Append(@, v), !.readsAfterLegWrite = 0,
     !.legAfterSmi = (@ \/ l.smiWrites # <<>>)]

LogClock(l) ==
  [Op(l, [k |-> "clock", a |-> -1, w |-> 0]) EXCEPT !.clockQueries = Sat(@)]

Init ==
  /\ dev \in Devices
  /\ hwCmd = dev.command
  /\ hwLeg = dev.leg
  /\ hwSmi \in SmiValues
  /\ now \in ClockStarts
  /\ pc = "idle"
  /\ pass = 0
  /\ ret = -1
  /\ base = -1 /\ base_h = -1 /\ eecp_offset = -1
  /\ usblegsup = 0 /\ maxtime = -1 /\ regs = NoWindow
  /\ log = EmptyLog
  /\ prevPath = "none"
  /\ fwEverSet = FALSE

----------------------------------------------------------------------------
(* The decisions of grub_xhci_pci_iter.                                    *)

\* the programming interface left out of the comparison
IsXhciClass_AnyInterface(word) ==
  LET class_code == word \div 256
      subclass == BitAnd(class_code \div 256, 255)
      class == class_code \div 65536
  IN ~(class # 12 \/ subclass # 3)

\* lines 65-71: class_code = word >> 8, then the three bytes are compared
IsXhciClass(word) ==
  LET class_code == word \div 256
      interf == BitAnd(class_code, 255)
      subclass == BitAnd(class_code \div 256, 255)
      class == class_code \div 65536
  IN ~(class # 12 \/ subclass # 3 \/ interf # 48)

\* every release from 0x30 on taken as supported
SbrnSupported_FromThirty(release) == release >= 48

\* line 79
SbrnSupported(release) == ~(release # 48 /\ release # 49 /\ release # 50)

\* the address type compared with the 1M type (2) in place of the 32-bit one
Above4G_WrongType(b, bh) ==
  /\ BitAnd(b, GRUB_PCI_ADDR_MEM_TYPE_MASK) = 2
  /\ bh # 0

\* the comparison of the address type turned around
Above4G_TypeInverted(b, bh) ==
  /\ BitAnd(b, GRUB_PCI_ADDR_MEM_TYPE_MASK) = GRUB_PCI_ADDR_MEM_TYPE_32
  /\ bh # 0

\* lines 94-95
Above4G(b, bh) ==
  /\ BitAnd(b, GRUB_PCI_ADDR_MEM_TYPE_MASK) # GRUB_PCI_ADDR_MEM_TYPE_32
  /\ bh # 0

\* the zero test made before the type bits are masked off
NotMapped_Unmasked(b) == b = 0

\* lines 101-102: base &= GRUB_PCI_ADDR_MEM_MASK; if (!base)
NotMapped(b) == GRUB_PCI_ADDR_MEM_MASK(b) = 0

\* the enable bits written alone
CommandValue_Overwrite(word) ==
  BitOr(GRUB_PCI_COMMAND_MEM_ENABLED, GRUB_PCI_COMMAND_BUS_MASTER)

\* lines 112-114
CommandValue(word) ==
  BitOr(BitOr(GRUB_PCI_COMMAND_MEM_ENABLED, GRUB_PCI_COMMAND_BUS_MASTER), word)

\* line 127
EecpOf(word) == BitAnd(word \div 256, 255)

\* any non-zero pointer taken as a capability
HandoffNeeded_NonZero(pciid, eecp) == pciid # GRUB_CS5536_PCIID /\ eecp > 0

\* line 132
HandoffNeeded(pciid, eecp) == pciid # GRUB_CS5536_PCIID /\ eecp >= EECP_MIN

\* the OS-owned case leaving the whole block
AfterClassify_OsLeaves(v) ==
  IF HasBit(v, GRUB_XHCI_BIOS_OWNED) THEN "bios_write"
  ELSE IF HasBit(v, GRUB_XHCI_OS_OWNED) THEN "init_device"
  ELSE "none_write"

\* the OS-owned case falling into the last branch
AfterClassify_OsAsNone(v) ==
  IF HasBit(v, GRUB_XHCI_BIOS_OWNED) THEN "bios_write" ELSE "none_write"

\* lines 138, 163, 166: where the owner found in USBLEGSUP leads
AfterClassify(v) ==
  IF HasBit(v, GRUB_XHCI_BIOS_OWNED) THEN "bios_write"
  ELSE IF HasBit(v, GRUB_XHCI_OS_OWNED) THEN "smi_write"
  ELSE "none_write"

\* the OS-owned bit written alone
BiosOwnedValue_Overwrite(u) == GRUB_XHCI_OS_OWNED

\* line 144, the value written when the BIOS owns the controller
BiosOwnedValue(u) == BitOr(u, GRUB_XHCI_OS_OWNED)

\* the value read at line 137 kept in the forced write
ForcedValue_KeepRead(u) == BitOr(u, GRUB_XHCI_OS_OWNED)

\* line 158, the value written after the wait
ForcedValue(u) == GRUB_XHCI_OS_OWNED

\* the value read kept in the write
NoneValue_Preserve(u) == BitOr(u, GRUB_XHCI_OS_OWNED)

\* line 173, the value written when nobody owns the controller
NoneValue(u) == GRUB_XHCI_OS_OWNED

\* line 150
Deadline(t) == t + OWNERSHIP_TIMEOUT_MS

\* the loop left one millisecond early
TimeLeft_Early(t, mt) == t + 1 < mt

\* the deadline taken from the current time at every test
TimeLeft_Moving(t, mt) == t < Deadline(t)

\* line 152, the second operand of the loop condition
TimeLeft(t, mt) == t < mt

----------------------------------------------------------------------------
(* grub_xhci_pci_scan: grub_pci_iterate calls grub_xhci_pci_iter.          *)

\* entry into the function: fresh locals (usblegsup = 0, line 46), empty log
Enter ==
  /\ pc = "idle"
  /\ pass' = pass + 1
  /\ pc' = "check_id"
  /\ prevPath' = log.path
  /\ log' = EmptyLog
  /\ base' = -1 /\ base_h' = -1 /\ eecp_offset' = -1
  /\ usblegsup' = 0 /\ maxtime' = -1 /\ regs' = NoWindow
  /\ UNCHANGED <<hw, now, ret, fwEverSet>>

\* the scan of the bus hands the device to the callback
Invoke ==
  /\ pass = 0
  /\ Enter

\* a further scan hands the same device to the callback again
Rescan ==
  /\ pass >= 1
  /\ pass < MaxPasses
  /\ Enter

\* a forced handoff reported to the enumerator as a failure
ReturnValue_TimeoutHalts(path) == IF path = "A_forced" THEN 1 ELSE 0

\* lines 59, 72, 83, 99, 106, 188: the value returned on every path
ReturnValue(path) == 0

\* "return 0" of a rejected device
Reject(l, why) ==
  /\ pc' = "idle"
  /\ ret' = ReturnValue(why)
  /\ log' = [l EXCEPT !.path = why]

\* line 56
CheckId ==
  /\ pc = "check_id"
  /\ IF dev.pciid = GRUB_CS5536_PCIID
       THEN Reject(log, "cs5536")
       ELSE pc' = "read_class" /\ UNCHANGED <<ret, log>>
  /\ UNCHANGED <<hw, now, pass, locals, prevPath, fwEverSet>>

\* lines 64-72
ReadClass ==
  /\ pc = "read_class"
  /\ LET l == LogCfgRead(log, GRUB_PCI_REG_CLASS, 32)
     IN IF ~IsXhciClass(dev.class)
          THEN Reject(l, "class")
          ELSE pc' = "read_sbrn" /\ log' = l /\ UNCHANGED ret
  /\ UNCHANGED <<hw, now, pass, locals, prevPath, fwEverSet>>

\* lines 77-84
ReadSbrn ==
  /\ pc = "read_sbrn"
  /\ LET l == LogCfgRead(log, GRUB_XHCI_PCI_SBRN_REG, 8)
     IN IF ~SbrnSupported(dev.sbrn)
          THEN Reject(l, "sbrn")
          ELSE pc' = "read_bar0" /\ log' = l /\ UNCHANGED ret
  /\ UNCHANGED <<hw, now, pass, locals, prevPath, fwEverSet>>

\* lines 88-89
ReadBar0 ==
  /\ pc = "read_bar0"
  /\ base' = dev.bar0
  /\ log' = LogCfgRead(log, GRUB_PCI_REG_ADDRESS_REG0, 32)
  /\ pc' = "read_bar1"
  /\ UNCHANGED <<hw, now, pass, ret, base_h, eecp_offset, usblegsup, maxtime,
                 regs, prevPath, fwEverSet>>

\* lines 90-107
ReadBar1 ==
  /\ pc = "read_bar1"
  /\ base_h' = dev.bar1
  /\ LET l == LogCfgRead(log, GRUB_PCI_REG_ADDRESS_REG1, 32)
     IN IF Above4G(base, dev.bar1)
          THEN Reject(l, "above4g") /\ UNCHANGED base
          ELSE /\ base' = GRUB_PCI_ADDR_MEM_MASK(base)
               /\ IF NotMapped(base)
                    THEN Reject(l, "unmapped")
                    ELSE pc' = "read_command" /\ log' = l /\ UNCHANGED ret
  /\ UNCHANGED <<hw, now, pass, eecp_offset, usblegsup, maxtime, regs,
                 prevPath, fwEverSet>>

\* line 114, the argument of the write
ReadCommand ==
  /\ pc = "read_command"
  /\ log' = [LogCfgRead(log, GRUB_PCI_REG_COMMAND, 16) EXCEPT !.cmdRead = hwCmd]
  /\ pc' = "write_command"
  /\ UNCHANGED <<hw, now, pass, ret, locals, prevPath, fwEverSet>>

\* lines 111-114
WriteCommand ==
  /\ pc = "write_command"
  /\ hwCmd' = CommandValue(log.cmdRead)
  /\ log' = [LogCfgWrite(log, GRUB_PCI_REG_COMMAND, 16) EXCEPT
               !.cmdWrites = Append(@, CommandValue(log.cmdRead))]
  /\ pc' = "map_range"
  /\ UNCHANGED <<dev, hwLeg, hwSmi, now, pass, ret, locals, prevPath, fwEverSet>>

\* lines 122-124
MapRange ==
  /\ pc = "map_range"
  /\ regs' = [base |-> GRUB_XHCI_ADDR_MEM_MASK(base), size |-> XHCI_WINDOW_SIZE]
  /\ log' = [Op(log, [k |-> "map", a |-> GRUB_XHCI_ADDR_MEM_MASK(base), w |-> 0])
               EXCEPT !.maps = Append(@, regs')]
  /\ pc' = "read_hccparams"
  /\ UNCHANGED <<hw, now, pass, ret, base, base_h, eecp_offset, usblegsup,
                 maxtime, prevPath, fwEverSet>>

\* lines 127-132: regs[2] is the word at byte 8 of the window
ReadHccparams ==
  /\ pc = "read_hccparams"
  /\ eecp_offset' = EecpOf(dev.hcc)
  /\ IF HandoffNeeded(dev.pciid, EecpOf(dev.hcc))
       THEN /\ pc' = "read_usblegsup"
            /\ log' = Op(log, [k |-> "mmio", a |-> 8, w |-> 32])
       ELSE /\ pc' = "init_device"
            /\ log' = [Op(log, [k |-> "mmio", a |-> 8, w |-> 32])
                         EXCEPT !.path = "skipped"]
  /\ UNCHANGED <<hw, now, pass, ret, base, base_h, usblegsup, maxtime, regs,
                 prevPath, fwEverSet>>

----------------------------------------------------------------------------
(* Ownership handoff, lines 135-183.                                       *)

\* lines 135-138, 163: read USBLEGSUP and classify the owner
ReadUsblegsup ==
  /\ pc = "read_usblegsup"
  /\ usblegsup' = hwLeg
  /\ log' = [LogLegRead(log, eecp_offset, hwLeg) EXCEPT
               !.initialLeg = hwLeg,
               !.path = IF HasBit(hwLeg, GRUB_XHCI_BIOS_OWNED) THEN "A"
                        ELSE IF HasBit(hwLeg, GRUB_XHCI_OS_OWNED) THEN "B"
                        ELSE "C"]
  /\ pc' = AfterClassify(hwLeg)
  /\ UNCHANGED <<hw, now, pass, ret, base, base_h, eecp_offset, maxtime, regs,
                 prevPath, fwEverSet>>

\* the write of line 144 without the read of line 146 after it
BiosWrite_NoConfirm ==
  /\ pc = "bios_write"
  /\ hwLeg' = BiosOwnedValue(usblegsup)
  /\ log' = LogLegWrite(log, eecp_offset, BiosOwnedValue(usblegsup))
  /\ pc' = "deadline"
  /\ UNCHANGED <<dev, hwCmd, hwSmi, now, pass, ret, locals, prevPath, fwEverSet>>

\* line 144
BiosWrite ==
  /\ pc = "bios_write"
  /\ hwLeg' = BiosOwnedValue(usblegsup)
  /\ log' = LogLegWrite(log, eecp_offset, BiosOwnedValue(usblegsup))
  /\ pc' = "bios_confirm"
  /\ UNCHANGED <<dev, hwCmd, hwSmi, now, pass, ret, locals, prevPath, fwEverSet>>

\* line 146
BiosConfirm ==
  /\ pc = "bios_confirm"
  /\ log' = LogLegRead(log, eecp_offset, hwLeg)
  /\ pc' = "deadline"
  /\ UNCHANGED <<hw, now, pass, ret, locals, prevPath, fwEverSet>>

\* line 150
ComputeDeadline ==
  /\ pc = "deadline"
  /\ \E d \in ClockSteps :
       /\ now' = now + d
       /\ maxtime' = Deadline(now + d)
       /\ log' = [LogClock(log) EXCEPT !.t0 = now + d]
  /\ pc' = "poll_read"
  /\ UNCHANGED <<hw, pass, ret, base, base_h, eecp_offset, usblegsup, regs,
                 prevPath, fwEverSet>>

\* line 151: first operand of the loop condition
PollRead ==
  /\ pc = "poll_read"
  /\ log' = LogLegRead(log, eecp_offset, hwLeg)
  /\ pc' = IF HasBit(hwLeg, GRUB_XHCI_BIOS_OWNED) THEN "poll_time" ELSE "recheck"
  /\ UNCHANGED <<hw, now, pass, ret, locals, prevPath, fwEverSet>>

\* line 152: second operand of the loop condition
PollTime ==
  /\ pc = "poll_time"
  /\ \E d \in ClockSteps :
       /\ now' = now + d
       /\ pc' = IF TimeLeft(now + d, maxtime) THEN "poll_read" ELSE "recheck"
  /\ log' = LogClock(log)
  /\ UNCHANGED <<hw, pass, ret, locals, prevPath, fwEverSet>>

\* line 153
Recheck ==
  /\ pc = "recheck"
  /\ log' = [LogLegRead(log, eecp_offset, hwLeg) EXCEPT
               !.path = IF HasBit(hwLeg, GRUB_XHCI_BIOS_OWNED)
                          THEN "A_forced" ELSE "A_clean"]
  /\ pc' = IF HasBit(hwLeg, GRUB_XHCI_BIOS_OWNED) THEN "forced_write"
           ELSE "smi_write"
  /\ UNCHANGED <<hw, now, pass, ret, locals, prevPath, fwEverSet>>

\* line 158
ForcedWrite ==
  /\ pc = "forced_write"
  /\ hwLeg' = ForcedValue(usblegsup)
  /\ log' = LogLegWrite(log, eecp_offset, ForcedValue(usblegsup))
  /\ pc' = "forced_confirm"
  /\ UNCHANGED <<dev, hwCmd, hwSmi, now, pass, ret, locals, prevPath, fwEverSet>>

\* line 160
ForcedConfirm ==
  /\ pc = "forced_confirm"
  /\ log' = LogLegRead(log, eecp_offset, hwLeg)
  /\ pc' = "smi_write"
  /\ UNCHANGED <<hw, now, pass, ret, locals, prevPath, fwEverSet>>

\* line 173
NoneWrite ==
  /\ pc = "none_write"
  /\ hwLeg' = NoneValue(usblegsup)
  /\ log' = LogLegWrite(log, eecp_offset, NoneValue(usblegsup))
  /\ pc' = "none_confirm"
  /\ UNCHANGED <<dev, hwCmd, hwSmi, now, pass, ret, locals, prevPath, fwEverSet>>

\* line 175
NoneConfirm ==
  /\ pc = "none_confirm"
  /\ log' = LogLegRead(log, eecp_offset, hwLeg)
  /\ pc' = "smi_write"
  /\ UNCHANGED <<hw, now, pass, ret, locals, prevPath, fwEverSet>>

\* lines 179-180
SmiWrite ==
  /\ pc = "smi_write"
  /\ hwSmi' = 0
  /\ log' = [LogCfgWrite(log, eecp_offset + SMI_REG_DELTA, 32) EXCEPT
               !.smiWrites = Append(@, [a |-> eecp_offset + SMI_REG_DELTA,
                                        v |-> 0])]
  /\ pc' = "smi_read"
  /\ UNCHANGED <<dev, hwCmd, hwLeg, now, pass, ret, locals, prevPath, fwEverSet>>

\* line 182
SmiRead ==
  /\ pc = "smi_read"
  /\ log' = LogCfgRead(log, eecp_offset + SMI_REG_DELTA, 32)
  /\ pc' = "init_device"
  /\ UNCHANGED <<hw, now, pass, ret, locals, prevPath, fwEverSet>>

\* lines 187-188: grub_xhci_init_device (regs); return 0
InitDevice ==
  /\ pc = "init_device"
  /\ log' = [Op(log, [k |-> "init", a |-> regs.base, w |-> 0]) EXCEPT
               !.inits = Append(@, regs)]
  /\ ret' = ReturnValue(log.path)
  /\ pc' = "idle"
  /\ UNCHANGED <<hw, now, pass, locals, prevPath, fwEverSet>>

----------------------------------------------------------------------------
(* Firmware: it owns the BIOS-owned bit of USBLEGSUP and may change it     *)
(* between any two steps of the function.                                  *)

FirmwareClears ==
  /\ HasBit(hwLeg, GRUB_XHCI_BIOS_OWNED)
  /\ hwLeg' = hwLeg - GRUB_XHCI_BIOS_OWNED
  /\ UNCHANGED <<dev, hwCmd, hwSmi, now, pc, pass, ret, locals, log, prevPath,
                 fwEverSet>>

FirmwareSets ==
  /\ ~HasBit(hwLeg, GRUB_XHCI_BIOS_OWNED)
  /\ hwLeg' = hwLeg + GRUB_XHCI_BIOS_OWNED
  /\ fwEverSet' = TRUE
  /\ UNCHANGED <<dev, hwCmd, hwSmi, now, pc, pass, ret, locals, log, prevPath>>

----------------------------------------------------------------------------

Qualify ==
  \/ CheckId \/ ReadClass \/ ReadSbrn \/ ReadBar0 \/ ReadBar1
  \/ ReadCommand \/ WriteCommand \/ MapRange \/ ReadHccparams

Handoff ==
  \/ ReadUsblegsup \/ BiosWrite \/ BiosConfirm \/ ComputeDeadline
  \/ PollRead \/ PollTime \/ Recheck \/ ForcedWrite \/ ForcedConfirm
  \/ NoneWrite \/ NoneConfirm \/ SmiWrite \/ SmiRead

\* one step of grub_xhci_pci_iter
Step == Qualify \/ Handoff \/ InitDevice

Next == Invoke \/ Step \/ FirmwareClears \/ FirmwareSets

Spec == Init /\ [][Next]_vars

\* Repeated scans over a device that has an ownership register.
RescanDevices == {d \in HandoffDevices : EecpOf(d.hcc) = EECP_MIN}
RescanInit == Init /\ dev \in RescanDevices /\ now = 250
RescanNext == Next \/ Rescan
RescanSpec == RescanInit /\ [][RescanNext]_vars

\* The function keeps running, and the millisecond clock keeps advancing:
\* of the clock queries of the poll loop, infinitely many see a later time.
ClockAdvances == PollTime /\ now' > now
FairSpec == Spec /\ WF_vars(Step) /\ SF_vars(ClockAdvances)

----------------------------------------------------------------------------
(* Vocabulary of the properties, stated on the device and on the log.      *)

Returned == pc = "idle" /\ pass >= 1

\* the device passes every qualification check (0x0c0330 = 787248)
Accepted(d) ==
  /\ d.pciid # GRUB_CS5536_PCIID
  /\ d.class \div 256 = 787248
  /\ d.sbrn \in {48, 49, 50}
  /\ ~((d.bar0 \div 2) % 4 # 0 /\ d.bar1 # 0)
  /\ d.bar0 \div 16 # 0

\* bits [15:8] of the word at byte 8 of the window
Pointer(d) == (d.hcc \div 256) % 256

BiosBit(v) == (v \div 65536) % 2 = 1
OsBit(v) == (v \div 16777216) % 2 = 1
WithOsBit(v) == IF OsBit(v) THEN v ELSE v + 16777216

\* positions after the ownership part of the handoff
PastOwnership == pc \in {"smi_write", "smi_read", "init_device"} \/ Returned
\* positions after the poll loop
PastPoll ==
  \/ pc \in {"recheck", "forced_write", "forced_confirm"}
  \/ (PastOwnership /\ log.t0 >= 0)

SmiOp(k) == [k |-> k, a |-> Pointer(dev) + 4, w |-> 32]
SmiDisable == <<[a |-> Pointer(dev) + 4, v |-> 0]>>
Window == [base |-> dev.bar0 - (dev.bar0 % 256), size |-> 256]

----------------------------------------------------------------------------
(* C1: the forced-fallback write (the write of exactly GRUB_XHCI_OS_OWNED  *)
(* after the poll loop) occurs only if at least 1000 ms have elapsed since *)
(* the deadline was computed and the most recent read of the ownership     *)
(* register had the BIOS-owned bit set, whatever firmware does to the bit. *)
(* Stated in the state right after the write.                              *)
C1_ForcedOnlyAfterTimeout ==
  pc = "forced_confirm" =>
    /\ now - log.t0 >= 1000
    /\ BiosBit(log.lastLegRead)

(* C2: when every read of the ownership register has the BIOS-owned bit   *)
(* set, the poll loop is left only once the clock is at least 1000 ms past *)
(* the value the deadline was computed from; afterwards exactly one write  *)
(* of exactly 0x01000000 follows the first write, and exactly one read of  *)
(* the register follows it before the SMI-disable write.                   *)
C2_CaseATimingBound ==
  /\ (PastPoll /\ ~log.clearSeen) => now - log.t0 >= 1000
  /\ (PastOwnership /\ log.path = "A_forced" /\ ~log.clearSeen) =>
       /\ Len(log.legWrites) = 2
       /\ log.legWrites[1] # 16777216
       /\ log.legWrites[2] = 16777216
       /\ log.readsAfterLegWrite = 1
       /\ ~log.legAfterSmi

C2_Witness ==
  /\ Returned
  /\ log.path = "A_forced"
  /\ ~log.clearSeen
  /\ BiosBit(log.lastLegRead)
  /\ now - log.t0 = 1000

(* C3: when the initial read has the BIOS-owned bit set and the re-check   *)
(* after the poll loop finds it clear, there is no forced write: the       *)
(* ownership register is written exactly once, with the value read        *)
(* initially plus the OS-owned bit, and is read at least twice after that  *)
(* write.                                                                  *)
C3_CaseASuccess ==
  (PastOwnership /\ log.path = "A_clean") =>
    /\ BiosBit(log.initialLeg)
    /\ log.legWrites = <<WithOsBit(log.initialLeg)>>
    /\ log.readsAfterLegWrite >= 2

C3_Witness ==
  /\ Returned
  /\ log.path = "A_clean"
  /\ log.initialLeg = 66561
  /\ ~fwEverSet
  /\ now < maxtime

(* C4: for an accepted device with pointer >= 0x40 there is exactly one    *)
(* write of 0 to the register at pointer + 4, whatever the ownership case; *)
(* the operation right after it is a read of the same register; no access  *)
(* to the ownership register comes after it; controller initialization     *)
(* comes after it.                                                         *)
C4_SmiDisableOnce ==
  /\ (Returned /\ Accepted(dev) /\ Pointer(dev) >= 64) =>
       log.smiWrites = SmiDisable
  /\ Len(log.smiWrites) <= 1
  /\ log.last = SmiOp("write") => pc = "smi_read"
  /\ log.prev = SmiOp("write") => log.last = SmiOp("read")
  /\ ~log.legAfterSmi
  /\ (log.inits # <<>> /\ Pointer(dev) >= 64) =>
       (log.smiWrites = SmiDisable /\ ~log.opsAfterInit)

C4_Witness ==
  /\ Returned
  /\ Accepted(dev)
  /\ Pointer(dev) = 64
  /\ log.path = "A_forced"
  /\ log.smiWrites = SmiDisable

(* C5: for an accepted device with pointer below 0x40 the ownership        *)
(* register is neither read nor written, there is no SMI-disable write and *)
(* no clock query, and controller initialization is called with the        *)
(* mapped window.                                                          *)
C5_HandoffSkipped ==
  (Accepted(dev) /\ Pointer(dev) < 64) =>
    /\ log.legReads = 0
    /\ log.legWrites = <<>>
    /\ log.smiWrites = <<>>
    /\ log.clockQueries = 0
    /\ log.cfgWrites <= 1
    /\ Returned => (log.maps = <<Window>> /\ log.inits = <<Window>>)

C5_Witness ==
  /\ Returned
  /\ Accepted(dev)
  /\ Pointer(dev) = 63
  /\ log.inits = <<Window>>

(* C6: a handoff whose initial read finds the register OS-owned (BIOS bit *)
(* clear, OS bit set) never writes the ownership register, reads it        *)
(* exactly once, and still writes 0 to the register at pointer + 4; and a  *)
(* further handoff on the register a completed handoff left behind finds   *)
(* it in that state, as long as firmware has not set the BIOS bit.         *)
C6_Idempotent ==
  /\ (log.initialLeg >= 0 /\ ~BiosBit(log.initialLeg) /\ OsBit(log.initialLeg))
       => /\ log.legWrites = <<>>
          /\ log.legReads = 1
          /\ Returned => log.smiWrites = SmiDisable
  /\ (pass >= 2 /\ prevPath \in {"A_clean", "A_forced", "B", "C"}
        /\ ~fwEverSet /\ log.initialLeg >= 0)
       => (~BiosBit(log.initialLeg) /\ OsBit(log.initialLeg))

C6_Witness ==
  /\ Returned
  /\ pass = 2
  /\ prevPath = "A_forced"
  /\ log.path = "B"
  /\ log.legWrites = <<>>
  /\ log.smiWrites = SmiDisable

(* C7: when the initial read has neither owner bit set, the ownership      *)
(* register is written exactly once, with exactly 0x01000000, and read     *)
(* once after that; the clock is never queried; the SMI-disable write      *)
(* follows.                                                                *)
C7_CaseUnowned ==
  (PastOwnership /\ log.path = "C") =>
    /\ ~BiosBit(log.initialLeg) /\ ~OsBit(log.initialLeg)
    /\ log.legWrites = <<16777216>>
    /\ log.readsAfterLegWrite = 1
    /\ log.legReads = 2
    /\ log.clockQueries = 0
    /\ ~log.legAfterSmi
    /\ Returned => log.smiWrites = SmiDisable

C7_Witness ==
  /\ Returned
  /\ log.path = "C"
  /\ log.initialLeg = 1025
  /\ log.smiWrites = SmiDisable

(* C8: an accepted device has its window mapped exactly once, 256 bytes    *)
(* at the base address, and controller initialization called exactly once, *)
(* with that window, as the last operation of the invocation, whatever the *)
(* handoff did; a rejected device has neither.                             *)
C8_MapOnceInitOnce ==
  /\ Len(log.maps) <= 1 /\ Len(log.inits) <= 1
  /\ log.inits # <<>> => (log.inits = log.maps /\ ~log.opsAfterInit)
  /\ (Returned /\ Accepted(dev)) =>
       /\ log.maps = <<Window>>
       /\ log.inits = <<Window>>
       /\ log.last.k = "init"
  /\ ~Accepted(dev) => (log.maps = <<>> /\ log.inits = <<>>)

C8_Witness ==
  /\ Returned
  /\ Accepted(dev)
  /\ log.path = "A_forced"
  /\ log.inits = <<Window>>

(* C9: every invocation of grub_xhci_pci_iter returns, and returns 0, for  *)
(* every device and every behaviour of the BIOS-owned bit, provided the    *)
(* clock keeps advancing.                                                  *)
C9_AlwaysReturnsZero ==
  /\ [](pc # "idle" => <>(pc = "idle" /\ ret = 0))
  /\ [](Returned => ret = 0)

C9_Witness ==
  /\ Returned
  /\ ret = 0
  /\ log.path = "A_forced"
  /\ ~log.clearSeen
  /\ BiosBit(hwLeg)

(* C10: a device rejected by a qualification check gets no configuration   *)
(* write of any width (its command register keeps its value), no mapped    *)
(* window and no controller initialization.                                *)
C10_RejectNoSideEffects ==
  ~Accepted(dev) =>
    /\ log.cfgWrites = 0
    /\ hwCmd = dev.command
    /\ log.maps = <<>>
    /\ log.inits = <<>>
    /\ Returned => log.path \in {"cs5536", "class", "sbrn", "above4g", "unmapped"}

C10_Witness ==
  /\ Returned
  /\ ~Accepted(dev)
  /\ log.path = "unmapped"
  /\ dev.bar0 = 4

(* C11: a device with the CS5536 identity is rejected without any access  *)
(* to configuration space or to a register window, whatever its class      *)
(* code; a device with another identity whose class, subclass, interface   *)
(* is not 0x0c, 0x03, 0x30 is rejected after exactly one operation, the     *)
(* 32-bit read of the class-code register.                                 *)
C11_EarlyRejection ==
  /\ dev.pciid = GRUB_CS5536_PCIID =>
       /\ log.nOps = 0 /\ log.last = NoOp
       /\ Returned => log.path = "cs5536"
  /\ (dev.pciid # GRUB_CS5536_PCIID /\ dev.class \div 256 # 787248) =>
       /\ log.nOps <= 1
       /\ Returned =>
            /\ log.path = "class"
            /\ log.nOps = 1
            /\ log.last = [k |-> "read", a |-> 8, w |-> 32]
            /\ log.prev = NoOp

C11_Witness ==
  /\ Returned
  /\ dev.pciid # GRUB_CS5536_PCIID
  /\ dev.class = 201531395
  /\ log.path = "class"
  /\ log.nOps = 1

(* C12: a device with a matching class triple whose revision byte at 0x60  *)
(* is not 0x30, 0x31 or 0x32 is rejected before either base-address        *)
(* register is read: its only operations are the class-code read and the   *)
(* read of the revision byte.                                              *)
C12_RejectBeforeBars ==
  (dev.pciid # GRUB_CS5536_PCIID /\ dev.class \div 256 = 787248
     /\ dev.sbrn \notin {48, 49, 50}) =>
    /\ log.nOps <= 2
    /\ log.last.a \notin {16, 20} /\ log.prev.a \notin {16, 20}
    /\ Returned =>
         /\ log.path = "sbrn"
         /\ log.nOps = 2
         /\ log.prev = [k |-> "read", a |-> 8, w |-> 32]
         /\ log.last = [k |-> "read", a |-> 96, w |-> 8]

C12_Witness ==
  /\ Returned
  /\ dev.sbrn = 51
  /\ log.path = "sbrn"
  /\ log.nOps = 2

\* the device passes the identity, class and release checks
PassesRelease(d) ==
  /\ d.pciid # GRUB_CS5536_PCIID
  /\ d.class \div 256 = 787248
  /\ d.sbrn \in {48, 49, 50}

\* bits [2:1] of the low base-address word, as a value 0, 2, 4 or 6
AddressType(d) == ((d.bar0 \div 2) % 4) * 2

(* C13, as claimed: a device that passes the class and release checks and  *)
(* has a non-zero high base-address word is rejected before any window is  *)
(* mapped, whatever the address-type bits of the low word are.             *)
C13_HighWordAlwaysRejects ==
  (PassesRelease(dev) /\ dev.bar1 # 0) => log.maps = <<>>

(* C13, amended: such a device is rejected before any window is mapped     *)
(* when the address-type bits of the low word are not the 32-bit type;     *)
(* with the 32-bit type the high word is not consulted and the device, if  *)
(* its masked base is non-zero, is mapped; every mapped window has as base *)
(* the low word with its low 8 bits cleared, a 32-bit value.               *)
C13_HighWordRejectsUnless32 ==
  /\ (PassesRelease(dev) /\ dev.bar1 # 0 /\ AddressType(dev) # 0) =>
       /\ log.maps = <<>>
       /\ Returned => log.path = "above4g"
  /\ (PassesRelease(dev) /\ dev.bar1 # 0 /\ AddressType(dev) = 0
        /\ dev.bar0 \div 16 # 0 /\ Returned) => log.maps = <<Window>>
  /\ \A i \in 1..Len(log.maps) :
       log.maps[i].base = dev.bar0 - (dev.bar0 % 256)

C13_Witness ==
  /\ Returned
  /\ dev.bar1 = 1
  /\ dev.bar0 = 1073741826
  /\ log.path = "above4g"
  /\ log.maps = <<>>

(* C14: a device that passes the class and release checks is rejected      *)
(* without a mapped window and without a write of the command register     *)
(* when its low base-address word has the 64-bit type and the high word is *)
(* non-zero, or when the low word with its low 4 bits cleared is zero.     *)
C14_AddressRejections ==
  (PassesRelease(dev)
     /\ ((AddressType(dev) = 4 /\ dev.bar1 # 0) \/ dev.bar0 \div 16 = 0)) =>
    /\ log.maps = <<>>
    /\ log.cmdWrites = <<>>
    /\ log.cfgWrites = 0
    /\ Returned => log.path \in {"above4g", "unmapped"}

C14_Witness ==
  /\ Returned
  /\ dev.bar0 = 1073741828
  /\ dev.bar1 = 1
  /\ log.path = "above4g"
  /\ log.cmdWrites = <<>>

(* C15: an accepted device has its command register written exactly once,  *)
(* with the word read from it plus the memory-space and bus-master bits:   *)
(* bits 1 and 2 set, every other bit as read; a rejected device has it     *)
(* never written; the write comes before the window is mapped.             *)
C15_CommandReadModifyWrite ==
  /\ Len(log.cmdWrites) <= 1
  /\ log.cmdWrites # <<>> =>
       /\ Accepted(dev)
       /\ log.cmdRead = dev.command
       /\ (log.cmdWrites[1] \div 2) % 4 = 3
       /\ log.cmdWrites[1] \div 8 = log.cmdRead \div 8
       /\ log.cmdWrites[1] % 2 = log.cmdRead % 2
       /\ hwCmd = log.cmdWrites[1]
  /\ log.last = [k |-> "write", a |-> 4, w |-> 16] => log.maps = <<>>
  /\ log.maps # <<>> => Len(log.cmdWrites) = 1
  /\ (Returned /\ Accepted(dev)) => Len(log.cmdWrites) = 1

C15_Witness ==
  /\ Returned
  /\ Accepted(dev)
  /\ log.cmdRead = 1026
  /\ log.cmdWrites = <<1030>>

\* a 32-bit write to configuration space: USBLEGSUP or the register after it
IsWrite32(o) == o.k = "write" /\ o.w = 32
ReadOf(o) == [k |-> "read", a |-> o.a, w |-> 32]

(* C16: every 32-bit write to the ownership register or to the register    *)
(* at pointer + 4 has as the very next operation a read of the same        *)
(* address, and the function does not return in between; the first clock   *)
(* query comes right after the read that follows the first ownership       *)
(* write.                                                                  *)
C16_ReadAfterWrite ==
  /\ [][(IsWrite32(log.last) /\ log' # log) => log'.last = ReadOf(log.last)]_vars
  /\ [](IsWrite32(log.last) =>
          pc \in {"bios_confirm", "forced_confirm", "none_confirm", "smi_read"})
  /\ [](IsWrite32(log.prev) => log.last = ReadOf(log.prev))
  /\ []((log.last.k = "clock" /\ log.clockQueries = 1) =>
          /\ log.prev = [k |-> "read", a |-> Pointer(dev), w |-> 32]
          /\ Len(log.legWrites) = 1
          /\ log.readsAfterLegWrite = 1)

C16_Witness ==
  /\ pc = "poll_read"
  /\ log.clockQueries = 1
  /\ log.last.k = "clock"
  /\ log.prev = [k |-> "read", a |-> 64, w |-> 32]
  /\ Len(log.legWrites) = 1

(* C17: when firmware never sets the BIOS-owned bit, then for an accepted  *)
(* device with pointer >= 0x40 the ownership register has the OS-owned bit *)
(* set and the BIOS-owned bit clear when controller initialization is      *)
(* called and from then on, whichever case the handoff took.               *)
C17_OwnedByOsAtInit ==
  ((pc = "init_device" \/ log.inits # <<>>) /\ Accepted(dev)
     /\ Pointer(dev) >= 64 /\ ~fwEverSet) =>
    /\ OsBit(hwLeg)
    /\ ~BiosBit(hwLeg)
    /\ log.path \in {"A_clean", "A_forced", "B", "C"}

C17_Witness ==
  /\ Returned
  /\ log.inits # <<>>
  /\ log.path = "A_forced"
  /\ log.initialLeg = 66561
  /\ ~fwEverSet
  /\ hwLeg = 16777216

(* C18: whenever a register window is mapped, the physical address handed  *)
(* to the mapping call is non-zero, for every base-address value.          *)
C18_MappedBaseNonZero ==
  \A i \in 1..Len(log.maps) : log.maps[i].base # 0

(* C19: every configuration-space access of the handoff lies within the    *)
(* 256 bytes of the device's configuration space: the offset it is built   *)
(* from plus its width is at most 0x100, for every pointer 0x40..0xff.     *)
C19_OffsetsInRange ==
  (log.last.k \in {"read", "write"}) => log.last.a + (log.last.w \div 8) <= 256

====
